---- MODULE Spec2Model ----
(***************************************************************************)
(* Model of backend/index.js: the write endpoints of the antibiotic stock  *)
(* API (PUT /api/antibioticos/:codigo, POST .../restar, POST /api/salidas, *)
(* POST /api/antibiogramas/:id/antibioticos) running concurrently against  *)
(* one Postgres store in its default READ COMMITTED isolation level.       *)
(*                                                                         *)
(* One action is one awaited database statement as the server executes it, *)
(* together with the synchronous JavaScript that follows it up to the next *)
(* await.  A statement that has to wait for a row lock is an action that   *)
(* is not enabled until the lock is free.                                  *)
(***************************************************************************)
EXTENDS Integers, Sequences, FiniteSets, TLC

\* ------------------------------------------------------------------ bounds
\* Requests served in one behaviour.
MaxRequests == 2
\* Largest quantity in the seed data and in a PUT body.
MaxCantidad == 2

\* ------------------------------------------------------- the seeded store
\* Request slots: the requests being served at the same time.
Slots == {"r1", "r2"}
NoSlot == "none"

\* Rows of table antibioticos (no endpoint creates or deletes one).
Codigos == {"AMX", "CIP"}
\* A :codigo that names no row.
CodigoParams == Codigos \cup {"ZZZ"}
\* Rows of table antibiogramas.
Antibiogramas == {1, 2}

Nombre(c) == IF c = "AMX" THEN "Amoxicilina" ELSE "Ciprofloxacino"

Pares == Antibiogramas \X Codigos

\* ------------------------------------------------------- JavaScript values
\* A JSON body value after Number(): an integer, or something
\* Number.isInteger rejects (NaN, a fraction, undefined).
JsInt(v) == [isInt |-> TRUE, val |-> v]
NotInteger == [isInt |-> FALSE, val |-> 0]
NumberIsInteger(x) == x.isInt

\* Entries of the codes array: strings, and the falsy "" / null.
Falsy == ""
CodeLists == {<<>>, <<"AMX">>, <<"CIP">>, <<"AMX", "CIP">>, <<"CIP", "CIP">>,
              <<Falsy, "AMX">>, <<"CIP", "ZZZ">>}

NoReq == [kind |-> "none", codigo |-> "", cantidad |-> NotInteger,
          stock_minimo |-> NotInteger, antibiograma_id |-> NotInteger,
          unidades |-> NotInteger, codes |-> <<>>]

NoRes == [status |-> 0, body |-> <<>>, sent |-> 0]
NoTx == [open |-> FALSE, upd |-> [c \in {} |-> 0], del |-> {}, ins |-> {},
         log |-> <<>>]
NoEff == [writes |-> {}, salidas |-> <<>>, added |-> {}, removed |-> {},
          commits |-> 0, interferida |-> FALSE, vistos |-> {}]

VARIABLES
  antibioticos,              \* table antibioticos (committed rows)
  antibiograma_antibiotico,  \* table antibiograma_antibiotico (committed)
  salidas,                   \* table salidas (committed, in id order)
  rowLock,                   \* row locks on antibioticos rows
  aaLock,                    \* row locks on antibiograma_antibiotico rows
  tx,                        \* each connection's open transaction
  pc,                        \* each handler's position
  req,                       \* each handler's request
  client,                    \* each handler's pooled connection
  items,                     \* rows a handler's SELECT ... FOR UPDATE returned
  pending,                   \* rows a running statement has still to lock
  idx,                       \* loop index of a handler's for loop
  exc,                       \* the exception a handler's try block threw
  res,                       \* the response a handler sent
  eff,                       \* history: what a request's statements committed
  esperado,                  \* history: each quantity by serial accounting
  issued                     \* history: requests received so far

dbVars == <<antibioticos, antibiograma_antibiotico, salidas, esperado>>
lockVars == <<rowLock, aaLock>>
vars == <<antibioticos, antibiograma_antibiotico, salidas, rowLock, aaLock, tx,
          pc, req, client, items, pending, idx, exc, res, eff, esperado, issued>>

\* ------------------------------------------------------------- the store
\* The quantity a statement of r's transaction sees in row c: its own
\* uncommitted write, else the committed row.
CurrentCantidad(r, c) ==
  IF c \in DOMAIN tx[r].upd THEN tx[r].upd[c] ELSE antibioticos[c].cantidad

WithUpdate(upd, c, v) ==
  [x \in (DOMAIN upd) \cup {c} |-> IF x = c THEN v ELSE upd[x]]

\* Mutant: a lock request never waits for the transaction holding the row.
RowNeverWaits(r, c) == TRUE
\* A row lock is granted to r when no other transaction holds it.
RowFree(r, c) == rowLock[c] \in {NoSlot, r}
AaFree(r, p) == aaLock[p] \in {NoSlot, r}

ReleasedRowLocks(r) ==
  [c \in Codigos |-> IF rowLock[c] = r THEN NoSlot ELSE rowLock[c]]
ReleasedAaLocks(r) ==
  [p \in Pares |-> IF aaLock[p] = r THEN NoSlot ELSE aaLock[p]]

\* History: what the step being taken by r changes in the committed tables.
Recorded(r, old) ==
  [eff EXCEPT ![r] =
     [writes |-> old.writes \cup
                   {[codigo |-> c, before |-> antibioticos[c],
                     after |-> antibioticos'[c]] :
                      c \in {x \in Codigos : antibioticos'[x] # antibioticos[x]}},
      salidas |-> old.salidas \o SubSeq(salidas', Len(salidas) + 1, Len(salidas')),
      added |-> old.added \cup (antibiograma_antibiotico' \ antibiograma_antibiotico),
      removed |-> old.removed \cup (antibiograma_antibiotico \ antibiograma_antibiotico'),
      commits |-> old.commits + 1,
      interferida |-> old.interferida,
      vistos |-> old.vistos]]

\* History: the amount request r asked to take from row c.
Decremento(r, c) ==
  IF req[r].kind = "restar" /\ req[r].codigo = c THEN req[r].cantidad.val
  ELSE IF req[r].kind = "salidas" /\ c \in {items[r][i].codigo : i \in 1..Len(items[r])}
  THEN req[r].unidades.val
  ELSE 0

\* History: r's transaction changes the associations of the antibiogram that
\* the open replace-all transaction of s is replacing.
Interfiere(r, s) ==
  /\ req[s].kind = "asignar"
  /\ tx[s].open
  /\ \E p \in tx[r].del \cup tx[r].ins : p[1] = req[s].antibiograma_id.val

\* Mutant: the rows of the transaction replace the table.
InsertedOver(tabla, filas) == filas
\* INSERT INTO salidas: the committed rows are added after the existing ones.
InsertedInto(tabla, filas) == tabla \o filas

\* COMMIT on r's connection: the transaction's writes become the committed
\* rows, its locks are released; a statement of another transaction that
\* is waiting on a row version this transaction deleted skips that row.
Commit(r) ==
  /\ antibioticos' =
       [c \in Codigos |->
          IF c \in DOMAIN tx[r].upd
          THEN [antibioticos[c] EXCEPT !.cantidad = tx[r].upd[c]]
          ELSE antibioticos[c]]
  /\ antibiograma_antibiotico' =
       (antibiograma_antibiotico \ tx[r].del) \cup tx[r].ins
  /\ salidas' = InsertedInto(salidas, tx[r].log)
  /\ rowLock' = ReleasedRowLocks(r)
  /\ aaLock' = ReleasedAaLocks(r)
  /\ pending' = [s \in Slots |-> IF s = r THEN {} ELSE pending[s] \ tx[r].del]
  /\ tx' = [tx EXCEPT ![r] = NoTx]
  /\ esperado' = [c \in Codigos |-> esperado[c] - Decremento(r, c)]
  /\ eff' = [s \in Slots |->
               IF s = r THEN Recorded(r, eff[r])[r]
               ELSE [eff[s] EXCEPT !.interferida = @ \/ Interfiere(r, s)]]

\* Mutant: the deletes of the transaction survive its ROLLBACK.
RollbackKeepsDeletes(r) ==
  /\ antibiograma_antibiotico' = antibiograma_antibiotico \ tx[r].del
  /\ UNCHANGED <<antibioticos, salidas, esperado>>
  /\ rowLock' = ReleasedRowLocks(r)
  /\ aaLock' = ReleasedAaLocks(r)
  /\ pending' = [pending EXCEPT ![r] = {}]
  /\ tx' = [tx EXCEPT ![r] = NoTx]
  /\ eff' = Recorded(r, eff[r])
\* Mutant: the transaction is still open after the ROLLBACK.
RollbackLeavesOpen(r) ==
  /\ UNCHANGED dbVars
  /\ rowLock' = ReleasedRowLocks(r)
  /\ aaLock' = ReleasedAaLocks(r)
  /\ pending' = [pending EXCEPT ![r] = {}]
  /\ tx' = [tx EXCEPT ![r] = [NoTx EXCEPT !.open = tx[r].open]]
  /\ UNCHANGED eff
\* ROLLBACK on r's connection (a no-op outside a transaction).
Rollback(r) ==
  /\ UNCHANGED dbVars
  /\ rowLock' = ReleasedRowLocks(r)
  /\ aaLock' = ReleasedAaLocks(r)
  /\ pending' = [pending EXCEPT ![r] = {}]
  /\ tx' = [tx EXCEPT ![r] = NoTx]
  /\ UNCHANGED eff

\* pool.connect() / client.release()
Connected == [acquired |-> 1, released |-> 0]
\* Mutant: the client is never given back.
NeverReleased == [acquired |-> 1, released |-> 0]
Released == [acquired |-> 1, released |-> 1]
NoClient == [acquired |-> 0, released |-> 0]

Respond(r, status, body) ==
  res' = [res EXCEPT ![r] = [status |-> status, body |-> body, sent |-> @.sent + 1]]

\* ------------------------------------------------------------------- Init
SeedAsociaciones == {<<1, "AMX">>, <<1, "CIP">>, <<2, "CIP">>}

Init ==
  /\ antibioticos \in
       {[c \in Codigos |->
           [nombre |-> Nombre(c),
            cantidad |-> IF c = "AMX" THEN MaxCantidad ELSE q,
            stock_minimo |-> 1]] : q \in 0..MaxCantidad}
  /\ antibiograma_antibiotico = SeedAsociaciones
  /\ salidas = <<>>
  /\ esperado = [c \in Codigos |-> antibioticos[c].cantidad]
  /\ rowLock = [c \in Codigos |-> NoSlot]
  /\ aaLock = [p \in Pares |-> NoSlot]
  /\ tx = [r \in Slots |-> NoTx]
  /\ pc = [r \in Slots |-> "idle"]
  /\ req = [r \in Slots |-> NoReq]
  /\ client = [r \in Slots |-> NoClient]
  /\ items = [r \in Slots |-> <<>>]
  /\ pending = [r \in Slots |-> {}]
  /\ idx = [r \in Slots |-> 0]
  /\ exc = [r \in Slots |-> ""]
  /\ res = [r \in Slots |-> NoRes]
  /\ eff = [r \in Slots |-> NoEff]
  /\ issued = 0

\* ------------------------------------------------------ request arrival
\* A handler that has sent its response and returned takes no further part:
\* its slot is freed (Finish) before anything else happens.
Returned == \E r \in Slots : pc[r] = "done"
At(r, label) == pc[r] = label /\ ~Returned

\* A new request takes the first free slot.
Free(r) == pc[r] = "idle"
FirstFree(r) == Free(r) /\ (r = "r2" => ~Free("r1")) /\ ~Returned

Arrives(r, request) ==
  /\ FirstFree(r)
  /\ issued < MaxRequests
  /\ issued' = issued + 1
  /\ req' = [req EXCEPT ![r] = request]

\* ------------------------------------------------- PUT /api/antibioticos/:codigo
PutRequests ==
  {[NoReq EXCEPT !.kind = "put", !.codigo = c, !.cantidad = JsInt(q),
                 !.stock_minimo = JsInt(1)] : c \in Codigos, q \in 0..MaxCantidad}
  \cup {[NoReq EXCEPT !.kind = "put", !.codigo = "CIP", !.cantidad = JsInt(1),
                      !.stock_minimo = JsInt(0)],
        [NoReq EXCEPT !.kind = "put", !.codigo = "ZZZ", !.cantidad = JsInt(1),
                      !.stock_minimo = JsInt(1)],
        [NoReq EXCEPT !.kind = "put", !.codigo = "AMX", !.cantidad = JsInt(0 - 1),
                      !.stock_minimo = JsInt(1)],
        [NoReq EXCEPT !.kind = "put", !.codigo = "AMX", !.cantidad = NotInteger,
                      !.stock_minimo = JsInt(1)],
        [NoReq EXCEPT !.kind = "put", !.codigo = "AMX", !.cantidad = JsInt(1),
                      !.stock_minimo = JsInt(0 - 1)]}

PutValidCantidad(cantidad) == NumberIsInteger(cantidad) /\ cantidad.val >= 0
PutValidStockMinimo(stock_minimo) == NumberIsInteger(stock_minimo) /\ stock_minimo.val >= 0

\* The whole handler: the body is validated, then the single autocommitted
\* UPDATE ... RETURNING runs.  The UPDATE waits for the row lock; the handler
\* holds nothing while it waits, so the wait is the action not being enabled.
Put(r) ==
  /\ \E request \in PutRequests : Arrives(r, request)
  /\ LET codigo == req'[r].codigo
         cantidad == req'[r].cantidad
         stock_minimo == req'[r].stock_minimo IN
       /\ UNCHANGED <<antibiograma_antibiotico, salidas>>
       /\ esperado' = IF PutValidCantidad(cantidad) /\ PutValidStockMinimo(stock_minimo)
                          /\ codigo \in Codigos
                       THEN [esperado EXCEPT ![codigo] = cantidad.val] ELSE esperado
       /\ IF ~PutValidCantidad(cantidad)
          THEN /\ Respond(r, 400, [error |-> "cantidad debe ser entero >= 0"])
               /\ UNCHANGED antibioticos
          ELSE IF ~PutValidStockMinimo(stock_minimo)
          THEN /\ Respond(r, 400, [error |-> "stock_minimo debe ser entero >= 0"])
               /\ UNCHANGED antibioticos
          ELSE IF codigo \notin Codigos
          THEN /\ Respond(r, 404, [error |-> "Antibiotico no encontrado"])
               /\ UNCHANGED antibioticos
          ELSE /\ RowFree(r, codigo)
               /\ antibioticos' = [antibioticos EXCEPT ![codigo] =
                    [@ EXCEPT !.cantidad = cantidad.val,
                              !.stock_minimo = stock_minimo.val]]
               /\ Respond(r, 200, [ok |-> TRUE, item |-> antibioticos'[codigo]])
       /\ eff' = IF antibioticos' # antibioticos
                 THEN Recorded(r, NoEff) ELSE [eff EXCEPT ![r] = NoEff]
  /\ pc' = [pc EXCEPT ![r] = "done"]
  /\ client' = [client EXCEPT ![r] = NoClient]
  /\ items' = [items EXCEPT ![r] = <<>>]
  /\ idx' = [idx EXCEPT ![r] = 0]
  /\ exc' = [exc EXCEPT ![r] = ""]
  /\ UNCHANGED <<lockVars, tx, pending>>

\* --------------------------------------- POST /api/antibioticos/:codigo/restar
RestarRequests ==
  {[NoReq EXCEPT !.kind = "restar", !.codigo = c, !.cantidad = JsInt(n)] :
     c \in Codigos, n \in 1..MaxCantidad}
  \cup {[NoReq EXCEPT !.kind = "restar", !.codigo = "ZZZ", !.cantidad = JsInt(1)],
        [NoReq EXCEPT !.kind = "restar", !.codigo = "AMX", !.cantidad = JsInt(0)],
        [NoReq EXCEPT !.kind = "restar", !.codigo = "AMX", !.cantidad = NotInteger]}

RestarValid(n) == NumberIsInteger(n) /\ n.val > 0

\* Mutant: the stock check is off by one.
RestarInsuficienteOffByOne(row, n) == row.cantidad < n - 1
\* if (Number(row.cantidad) < n)
RestarInsuficiente(row, n) == row.cantidad < n

\* `Stock insuficiente. Hay ${row.cantidad} y quieres restar ${n}.`: the
\* parts of the template literal, in order.
StockInsuficiente(row, n) ==
  <<"Stock insuficiente. Hay ", row.cantidad, " y quieres restar ", n, ".">>

\* Mutant: the UPDATE always takes one unit.
RestarNuevaCantidadMenosUno(cantidad, n) == cantidad - 1
\* SET cantidad = cantidad - $1
RestarNuevaCantidad(cantidad, n) == cantidad - n

\* Mutant: a plain SELECT, which takes no row lock.
SelectWithoutLock == FALSE
\* SELECT ... FOR UPDATE takes the row lock.
SelectForUpdate == TRUE

\* pool.connect(), the validation of the amount, BEGIN, and
\* SELECT ... WHERE codigo=$1 FOR UPDATE with the two checks on its result.
\* The handler holds nothing until the SELECT is granted the row lock, so
\* its wait is the action not being enabled.
RestarBegin(r) ==
  /\ \E request \in RestarRequests : Arrives(r, request)
  /\ LET codigo == req'[r].codigo
         n == req'[r].cantidad
         row == [antibioticos[codigo] EXCEPT !.cantidad = CurrentCantidad(r, codigo)]
                  @@ [codigo |-> codigo] IN
       IF ~RestarValid(n)
       THEN /\ Respond(r, 400, [error |-> "cantidad invalida"])
            /\ client' = [client EXCEPT ![r] = Released]
            /\ pc' = [pc EXCEPT ![r] = "done"]
            /\ UNCHANGED <<rowLock, tx>>
            /\ items' = [items EXCEPT ![r] = <<>>]
       ELSE IF codigo \notin Codigos
       THEN \* BEGIN, the empty SELECT, ROLLBACK
            /\ Respond(r, 404, [error |-> "Antibiotico no encontrado"])
            /\ client' = [client EXCEPT ![r] = Released]
            /\ pc' = [pc EXCEPT ![r] = "done"]
            /\ UNCHANGED <<rowLock, tx>>
            /\ items' = [items EXCEPT ![r] = <<>>]
       ELSE /\ SelectForUpdate => RowFree(r, codigo)
            /\ rowLock' = IF SelectForUpdate THEN [rowLock EXCEPT ![codigo] = r] ELSE rowLock
            /\ tx' = [tx EXCEPT ![r] = [NoTx EXCEPT !.open = TRUE]]
            /\ items' = [items EXCEPT ![r] = <<row>>]
            /\ client' = [client EXCEPT ![r] = Connected]
            /\ res' = [res EXCEPT ![r] = NoRes]
            /\ pc' = [pc EXCEPT ![r] =
                 IF RestarInsuficiente(row, n.val)
                 THEN "restar_rollback" ELSE "restar_update"]
  /\ idx' = [idx EXCEPT ![r] = 0]
  /\ exc' = [exc EXCEPT ![r] = ""]
  /\ eff' = [eff EXCEPT ![r] = NoEff]
  /\ UNCHANGED <<dbVars, aaLock, pending>>

\* Insufficient stock: ROLLBACK, the 409 response, finally client.release().
RestarRollback(r) ==
  /\ At(r, "restar_rollback")
  /\ Rollback(r)
  /\ Respond(r, 409, [error |-> StockInsuficiente(items[r][1], req[r].cantidad.val)])
  /\ client' = [client EXCEPT ![r] = Released]
  /\ pc' = [pc EXCEPT ![r] = "done"]
  /\ UNCHANGED <<req, items, idx, exc, issued>>

\* UPDATE antibioticos SET cantidad = cantidad - $1 WHERE codigo=$2 RETURNING ...
RestarUpdate(r) ==
  /\ At(r, "restar_update")
  /\ LET codigo == req[r].codigo IN
       /\ RowFree(r, codigo)
       /\ rowLock' = [rowLock EXCEPT ![codigo] = r]
       /\ tx' = [tx EXCEPT ![r].upd =
            WithUpdate(@, codigo, RestarNuevaCantidad(CurrentCantidad(r, codigo), req[r].cantidad.val))]
  /\ pc' = [pc EXCEPT ![r] = "restar_commit"]
  /\ UNCHANGED <<dbVars, aaLock, req, client, items, pending, idx, exc, res, eff, issued>>

\* COMMIT; then res.json({ ok: true, item }) names a variable that is not
\* declared anywhere, so it throws a ReferenceError; the catch block sends
\* ROLLBACK (outside a transaction by now: a no-op) and the 500 response;
\* finally client.release().
RestarCommit(r) ==
  /\ At(r, "restar_commit")
  /\ Commit(r)
  /\ exc' = [exc EXCEPT ![r] = "item is not defined"]
  /\ Respond(r, 500, [error |-> exc'[r]])
  /\ client' = [client EXCEPT ![r] = Released]
  /\ pc' = [pc EXCEPT ![r] = "done"]
  /\ UNCHANGED <<req, items, idx, issued>>

\* ------------------------------------------------------------ deadlocks
\* The transactions holding a lock that r's running statement waits for.
WaitsFor(r) ==
  IF pc[r] = "salidas_select"
  THEN ({aaLock[p] : p \in pending[r]} \cup {rowLock[p[2]] : p \in pending[r]})
         \ {NoSlot, r}
  ELSE IF pc[r] = "asignar_delete"
  THEN {aaLock[p] : p \in pending[r]} \ {NoSlot, r}
  ELSE IF pc[r] = "asignar_insert"
  THEN LET p == <<req[r].antibiograma_id.val, req[r].codes[idx[r]]>> IN
         {s \in Slots \ {r} : p \in tx[s].ins \/ p \in tx[s].del}
  ELSE {}

RECURSIVE WaitsForStar(_)
WaitsForStar(S) ==
  LET T == S \cup UNION {WaitsFor(s) : s \in S} IN
    IF T = S THEN S ELSE WaitsForStar(T)

\* r is in a cycle of lock waits: the store's deadlock detector may abort it.
Deadlocked(r) == r \in WaitsForStar(WaitsFor(r))

\* ---------------------------------------------------------- POST /api/salidas
SalidasRequests ==
  {[NoReq EXCEPT !.kind = "salidas", !.antibiograma_id = JsInt(id), !.unidades = JsInt(u)] :
     id \in Antibiogramas, u \in 1..MaxCantidad}
  \cup {[NoReq EXCEPT !.kind = "salidas", !.antibiograma_id = JsInt(0), !.unidades = JsInt(1)],
        [NoReq EXCEPT !.kind = "salidas", !.antibiograma_id = NotInteger, !.unidades = JsInt(1)],
        [NoReq EXCEPT !.kind = "salidas", !.antibiograma_id = JsInt(1), !.unidades = JsInt(0)],
        [NoReq EXCEPT !.kind = "salidas", !.antibiograma_id = JsInt(1), !.unidades = NotInteger],
        [NoReq EXCEPT !.kind = "salidas", !.antibiograma_id = JsInt(3), !.unidades = JsInt(1)]}

SalidasValidId(antibiograma_id) == NumberIsInteger(antibiograma_id) /\ antibiograma_id.val > 0
SalidasValidUnidades(unidades) == NumberIsInteger(unidades) /\ unidades.val > 0

\* items.rows.map(quedaria = cantidad - unidades).filter(quedaria < 0)
Quedaria(row, unidades) == row.cantidad - unidades

\* Mutant: only the first row of the result is checked.
InsufFirstRowOnly(rows, unidades) ==
  SelectSeq(SubSeq(rows, 1, 1), LAMBDA row : Quedaria(row, unidades) < 0)
Insuf(rows, unidades) == SelectSeq(rows, LAMBDA row : Quedaria(row, unidades) < 0)

\* Mutant: the UPDATE always takes one unit.
SalidasNuevaCantidadMenosUno(cantidad, unidades) == cantidad - 1
\* SET cantidad = cantidad - $1
SalidasNuevaCantidad(cantidad, unidades) == cantidad - unidades

\* Mutant: the payload itemizes every row read, without the filter.
InsuficientesSinFiltro(rows, unidades) ==
  [i \in 1..Len(rows) |->
     [codigo |-> rows[i].codigo, nombre |-> rows[i].nombre,
      cantidad |-> rows[i].cantidad, pedir |-> unidades]]
\* insuf.map(r => ({ codigo, nombre, cantidad, pedir: unidades }))
Insuficientes(rows, unidades) ==
  [i \in 1..Len(Insuf(rows, unidades)) |->
     [codigo |-> Insuf(rows, unidades)[i].codigo,
      nombre |-> Insuf(rows, unidades)[i].nombre,
      cantidad |-> Insuf(rows, unidades)[i].cantidad,
      pedir |-> unidades]]

\* The committed associations of antibiogram id.
Asociados(id) == {p \in antibiograma_antibiotico : p[1] = id}

\* Mutant: the join without its WHERE clause.
AsignadosDeTodos(id) == {p \in antibiograma_antibiotico : p[2] \in Codigos}
\* The rows of the join that a statement starting now sees for antibiogram id.
Asignados(id) == {p \in antibiograma_antibiotico : p[1] = id /\ p[2] \in Codigos}

\* pool.connect(), the validation, BEGIN, and the start of the
\* SELECT ... JOIN ... FOR UPDATE: the statement takes its snapshot of the
\* committed rows; it locks them one at a time afterwards.
SalidasBegin(r) ==
  /\ \E request \in SalidasRequests : Arrives(r, request)
  /\ IF ~SalidasValidId(req'[r].antibiograma_id)
     THEN /\ Respond(r, 400, [error |-> "antibiograma_id invalido"])
          /\ client' = [client EXCEPT ![r] = Released]
          /\ pc' = [pc EXCEPT ![r] = "done"]
          /\ UNCHANGED <<tx, pending>>
     ELSE IF ~SalidasValidUnidades(req'[r].unidades)
     THEN /\ Respond(r, 400, [error |-> "unidades invalidas"])
          /\ client' = [client EXCEPT ![r] = Released]
          /\ pc' = [pc EXCEPT ![r] = "done"]
          /\ UNCHANGED <<tx, pending>>
     ELSE /\ tx' = [tx EXCEPT ![r] = [NoTx EXCEPT !.open = TRUE]]
          /\ pending' = [pending EXCEPT ![r] = Asignados(req'[r].antibiograma_id.val)]
          /\ client' = [client EXCEPT ![r] = Connected]
          /\ res' = [res EXCEPT ![r] = NoRes]
          /\ pc' = [pc EXCEPT ![r] = "salidas_select"]
  /\ items' = [items EXCEPT ![r] = <<>>]
  /\ idx' = [idx EXCEPT ![r] = 0]
  /\ exc' = [exc EXCEPT ![r] = ""]
  /\ eff' = [eff EXCEPT ![r] =
       [NoEff EXCEPT !.vistos =
          IF SalidasValidId(req'[r].antibiograma_id)
          THEN Asociados(req'[r].antibiograma_id.val) ELSE {}]]
  /\ UNCHANGED <<dbVars, lockVars>>

\* The SELECT locks one more row of its result: the association row and the
\* antibioticos row it joins, reading the latest committed version.
SalidasLock(r) ==
  /\ At(r, "salidas_select")
  /\ \E p \in pending[r] :
       /\ SelectForUpdate => (AaFree(r, p) /\ RowFree(r, p[2]))
       /\ aaLock' = IF SelectForUpdate THEN [aaLock EXCEPT ![p] = r] ELSE aaLock
       /\ rowLock' = IF SelectForUpdate THEN [rowLock EXCEPT ![p[2]] = r] ELSE rowLock
       /\ items' = [items EXCEPT ![r] =
            Append(@, [antibioticos[p[2]] EXCEPT !.cantidad = CurrentCantidad(r, p[2])]
                        @@ [codigo |-> p[2]])]
       /\ pending' = [pending EXCEPT ![r] = @ \ {p}]
  /\ UNCHANGED <<dbVars, tx, pc, req, client, idx, exc, res, eff, issued>>

\* The SELECT returns; the checks on items.rows.  With no rows: ROLLBACK
\* (nothing is locked), the 400 response, finally client.release().
SalidasSelected(r) ==
  /\ At(r, "salidas_select")
  /\ pending[r] = {}
  /\ IF Len(items[r]) = 0
     THEN /\ Rollback(r)
          /\ Respond(r, 400, [error |-> "Ese antibiograma no tiene antibioticos asignados"])
          /\ client' = [client EXCEPT ![r] = Released]
          /\ pc' = [pc EXCEPT ![r] = "done"]
          /\ UNCHANGED idx
     ELSE /\ pc' = [pc EXCEPT ![r] =
               IF Len(Insuf(items[r], req[r].unidades.val)) # 0
               THEN "salidas_rollback" ELSE "salidas_update"]
          /\ idx' = [idx EXCEPT ![r] = 1]
          /\ UNCHANGED <<dbVars, lockVars, tx, pending, client, res, eff>>
  /\ UNCHANGED <<req, items, exc, issued>>

\* Insufficient stock: ROLLBACK, the 409 response, finally client.release().
SalidasRollback(r) ==
  /\ At(r, "salidas_rollback")
  /\ Rollback(r)
  /\ Respond(r, 409, [error |-> "Stock insuficiente para registrar la salida.",
                      insuficientes |-> Insuficientes(items[r], req[r].unidades.val)])
  /\ client' = [client EXCEPT ![r] = Released]
  /\ pc' = [pc EXCEPT ![r] = "done"]
  /\ UNCHANGED <<req, items, idx, exc, issued>>

\* for (const r of items.rows) UPDATE antibioticos SET cantidad = cantidad - $1
SalidasUpdate(r) ==
  /\ At(r, "salidas_update")
  /\ LET codigo == items[r][idx[r]].codigo IN
       /\ RowFree(r, codigo)
       /\ rowLock' = [rowLock EXCEPT ![codigo] = r]
       /\ tx' = [tx EXCEPT ![r].upd =
            WithUpdate(@, codigo, SalidasNuevaCantidad(CurrentCantidad(r, codigo), req[r].unidades.val))]
  /\ IF idx[r] < Len(items[r])
     THEN /\ idx' = [idx EXCEPT ![r] = @ + 1]
          /\ UNCHANGED pc
     ELSE /\ idx' = [idx EXCEPT ![r] = 0]
          /\ pc' = [pc EXCEPT ![r] = "salidas_insert"]
  /\ UNCHANGED <<dbVars, aaLock, req, client, items, pending, exc, res, eff, issued>>

\* INSERT INTO salidas (antibiograma_id, unidades) VALUES ($1,$2)
SalidasInsert(r) ==
  /\ At(r, "salidas_insert")
  /\ tx' = [tx EXCEPT ![r].log =
       Append(@, [antibiograma_id |-> req[r].antibiograma_id.val,
                  unidades |-> req[r].unidades.val])]
  /\ pc' = [pc EXCEPT ![r] = "salidas_commit"]
  /\ UNCHANGED <<dbVars, lockVars, req, client, items, pending, idx, exc, res, eff, issued>>

\* COMMIT, res.json({ ok: true }), finally client.release().
SalidasCommit(r) ==
  /\ At(r, "salidas_commit")
  /\ Commit(r)
  /\ Respond(r, 200, [ok |-> TRUE])
  /\ client' = [client EXCEPT ![r] = Released]
  /\ pc' = [pc EXCEPT ![r] = "done"]
  /\ UNCHANGED <<req, items, idx, exc, issued>>

\* The store aborts the waiting SELECT to break a deadlock: the query
\* rejects, the catch block sends ROLLBACK and the 500 response.
SalidasAbort(r) ==
  /\ At(r, "salidas_select")
  /\ Deadlocked(r)
  /\ Rollback(r)
  /\ exc' = [exc EXCEPT ![r] = "deadlock detected"]
  /\ Respond(r, 500, [error |-> exc'[r]])
  /\ client' = [client EXCEPT ![r] = Released]
  /\ pc' = [pc EXCEPT ![r] = "done"]
  /\ UNCHANGED <<req, items, idx, issued>>

\* ----------------------------------- POST /api/antibiogramas/:id/antibioticos
AsignarRequests ==
  {[NoReq EXCEPT !.kind = "asignar", !.antibiograma_id = JsInt(id), !.codes = codes] :
     id \in Antibiogramas, codes \in CodeLists}
  \cup {[NoReq EXCEPT !.kind = "asignar", !.antibiograma_id = NotInteger,
                      !.codes = <<"AMX">>]}

AsignarValidId(id) == NumberIsInteger(id)

\* if (!c) continue
Skipped(c) == c = Falsy
\* String(c); the entries of the lists are strings, which String() returns
\* as they are.
StringOf(c) == c

\* The position of the next entry of codes, after position i, that the loop
\* inserts; Len(codes) + 1 when the loop ends.
RECURSIVE NextCode(_, _)
NextCode(codes, i) ==
  IF i + 1 > Len(codes) THEN Len(codes) + 1
  ELSE IF Skipped(codes[i + 1]) THEN NextCode(codes, i + 1)
  ELSE i + 1

\* The store rejects an association row whose code names no antibiotic.
StoreRejectsInsert(p) == p[2] \notin Codigos

\* pool.connect(), the validation of :id, BEGIN, and the start of the
\* DELETE: the statement takes its snapshot of the antibiogram's committed
\* rows; it locks and deletes them one at a time afterwards.
AsignarBegin(r) ==
  /\ \E request \in AsignarRequests : Arrives(r, request)
  /\ IF ~AsignarValidId(req'[r].antibiograma_id)
     THEN /\ Respond(r, 400, [error |-> "id invalido"])
          /\ client' = [client EXCEPT ![r] = Released]
          /\ pc' = [pc EXCEPT ![r] = "done"]
          /\ UNCHANGED <<tx, pending>>
     ELSE /\ tx' = [tx EXCEPT ![r] = [NoTx EXCEPT !.open = TRUE]]
          /\ pending' = [pending EXCEPT ![r] =
               {p \in antibiograma_antibiotico : p[1] = req'[r].antibiograma_id.val}]
          /\ client' = [client EXCEPT ![r] = Connected]
          /\ res' = [res EXCEPT ![r] = NoRes]
          /\ pc' = [pc EXCEPT ![r] = "asignar_delete"]
  /\ items' = [items EXCEPT ![r] = <<>>]
  /\ idx' = [idx EXCEPT ![r] = 0]
  /\ exc' = [exc EXCEPT ![r] = ""]
  /\ eff' = [eff EXCEPT ![r] = NoEff]
  /\ UNCHANGED <<dbVars, lockVars>>

\* The DELETE locks and deletes one more row of its snapshot.
AsignarDelete(r) ==
  /\ At(r, "asignar_delete")
  /\ \E p \in pending[r] :
       /\ AaFree(r, p)
       /\ aaLock' = [aaLock EXCEPT ![p] = r]
       /\ tx' = [tx EXCEPT ![r].del = @ \cup {p}]
       /\ pending' = [pending EXCEPT ![r] = @ \ {p}]
  /\ UNCHANGED <<dbVars, rowLock, pc, req, client, items, idx, exc, res, eff, issued>>

\* The DELETE returns; the loop goes to the first code it inserts.
AsignarDeleted(r) ==
  /\ At(r, "asignar_delete")
  /\ pending[r] = {}
  /\ idx' = [idx EXCEPT ![r] = NextCode(req[r].codes, 0)]
  /\ pc' = [pc EXCEPT ![r] =
       IF idx'[r] > Len(req[r].codes) THEN "asignar_commit" ELSE "asignar_insert"]
  /\ UNCHANGED <<dbVars, lockVars, tx, req, client, items, pending, exc, res, eff, issued>>

\* INSERT ... VALUES ($1,$2) ON CONFLICT DO NOTHING.  It conflicts with a
\* committed row this transaction has not deleted and with a row this
\* transaction inserted; it waits for a transaction that has deleted or
\* inserted the same key and has not ended.  A rejected insert throws: the
\* catch block sends ROLLBACK and the 500 response.
AsignarInsert(r) ==
  /\ At(r, "asignar_insert")
  /\ LET p == <<req[r].antibiograma_id.val, StringOf(req[r].codes[idx[r]])>> IN
       IF StoreRejectsInsert(p)
       THEN /\ Rollback(r)
            /\ exc' = [exc EXCEPT ![r] = "violates foreign key constraint"]
            /\ Respond(r, 500, [error |-> exc'[r]])
            /\ client' = [client EXCEPT ![r] = Released]
            /\ pc' = [pc EXCEPT ![r] = "done"]
            /\ UNCHANGED idx
       ELSE /\ WaitsFor(r) = {}
            /\ tx' = [tx EXCEPT ![r].ins =
                 IF (p \in antibiograma_antibiotico /\ p \notin tx[r].del) \/ p \in @
                 THEN @ ELSE @ \cup {p}]
            /\ idx' = [idx EXCEPT ![r] = NextCode(req[r].codes, @)]
            /\ pc' = [pc EXCEPT ![r] =
                 IF idx'[r] > Len(req[r].codes) THEN "asignar_commit" ELSE "asignar_insert"]
            /\ UNCHANGED <<dbVars, lockVars, pending, client, exc, res, eff>>
  /\ UNCHANGED <<req, items, issued>>

\* COMMIT, res.json({ ok: true, count: codes.length }), finally client.release().
AsignarCommit(r) ==
  /\ At(r, "asignar_commit")
  /\ Commit(r)
  /\ Respond(r, 200, [ok |-> TRUE, count |-> Len(req[r].codes)])
  /\ client' = [client EXCEPT ![r] = Released]
  /\ pc' = [pc EXCEPT ![r] = "done"]
  /\ UNCHANGED <<req, items, idx, exc, issued>>

\* The store aborts the waiting DELETE or INSERT to break a deadlock.
AsignarAbort(r) ==
  /\ pc[r] \in {"asignar_delete", "asignar_insert"}
  /\ ~Returned
  /\ Deadlocked(r)
  /\ Rollback(r)
  /\ exc' = [exc EXCEPT ![r] = "deadlock detected"]
  /\ Respond(r, 500, [error |-> exc'[r]])
  /\ client' = [client EXCEPT ![r] = Released]
  /\ pc' = [pc EXCEPT ![r] = "done"]
  /\ UNCHANGED <<req, items, idx, issued>>

\* ------------------------------------------------ pool.connect() rejects
\* What the framework does with a handler whose promise rejects: a
\* framework that ignores the promise sends nothing; one that forwards the
\* rejection to its default error handler sends a 500 page.
FrameworkOutcomes == {"ignored", "forwarded"}

\* The requests taken to meet a rejecting pool: the handlers read nothing of
\* a request before pool.connect(), so one valid request of each handler
\* and one invalid request of restar and of salidas stand for all.
RejectedRequests ==
  {[NoReq EXCEPT !.kind = "restar", !.codigo = "AMX", !.cantidad = JsInt(1)],
   [NoReq EXCEPT !.kind = "restar", !.codigo = "AMX", !.cantidad = JsInt(0)],
   [NoReq EXCEPT !.kind = "salidas", !.antibiograma_id = JsInt(1), !.unidades = JsInt(1)],
   [NoReq EXCEPT !.kind = "salidas", !.antibiograma_id = JsInt(1), !.unidades = NotInteger],
   [NoReq EXCEPT !.kind = "asignar", !.antibiograma_id = JsInt(1), !.codes = <<"AMX">>]}

\* const client = await pool.connect() is the first statement of the three
\* write handlers and stands before their try block: when it rejects (no
\* pool, the store unreachable, the pool ended) the handler ends there; no
\* catch and no finally block runs, and no client was acquired.
PoolConnectRejects(r) ==
  /\ \E request \in RejectedRequests : Arrives(r, request)
  /\ \E outcome \in FrameworkOutcomes :
       IF outcome = "forwarded"
       THEN Respond(r, 500, [html |-> "Internal Server Error"])
       ELSE res' = [res EXCEPT ![r] = NoRes]
  /\ exc' = [exc EXCEPT ![r] = "connect rejected"]
  /\ client' = [client EXCEPT ![r] = NoClient]
  /\ pc' = [pc EXCEPT ![r] = "done"]
  /\ items' = [items EXCEPT ![r] = <<>>]
  /\ idx' = [idx EXCEPT ![r] = 0]
  /\ eff' = [eff EXCEPT ![r] = NoEff]
  /\ UNCHANGED <<dbVars, lockVars, tx, pending>>

\* The handler has returned: the slot is free again.
Finish(r) ==
  /\ pc[r] = "done"
  /\ pc' = [pc EXCEPT ![r] = "idle"]
  /\ req' = [req EXCEPT ![r] = NoReq]
  /\ client' = [client EXCEPT ![r] = NoClient]
  /\ items' = [items EXCEPT ![r] = <<>>]
  /\ idx' = [idx EXCEPT ![r] = 0]
  /\ exc' = [exc EXCEPT ![r] = ""]
  /\ res' = [res EXCEPT ![r] = NoRes]
  /\ eff' = [eff EXCEPT ![r] = NoEff]
  /\ UNCHANGED <<dbVars, lockVars, tx, pending, issued>>

Next ==
  \E r \in Slots :
    \/ Put(r)
    \/ RestarBegin(r) \/ RestarRollback(r) \/ RestarUpdate(r) \/ RestarCommit(r)
    \/ SalidasBegin(r) \/ SalidasLock(r) \/ SalidasSelected(r) \/ SalidasRollback(r)
    \/ SalidasUpdate(r) \/ SalidasInsert(r) \/ SalidasCommit(r) \/ SalidasAbort(r)
    \/ AsignarBegin(r) \/ AsignarDelete(r) \/ AsignarDeleted(r) \/ AsignarInsert(r)
    \/ AsignarCommit(r) \/ AsignarAbort(r)
    \/ PoolConnectRejects(r)
    \/ Finish(r)

Spec == Init /\ [][Next]_vars

\* ================================================================ claims
Done(r, kind) == pc[r] = "done" /\ req[r].kind = kind
Rows(r) == {items[r][i] : i \in 1..Len(items[r])}
Codes(r) == {row.codigo : row \in Rows(r)}
Unchanged(r) ==
  /\ eff[r].writes = {} /\ eff[r].salidas = <<>>
  /\ eff[r].added = {} /\ eff[r].removed = {}

\* The request in slot r, run to the end, would have taken a quantity below 0.
BajoCero(r) ==
  \/ req[r].kind = "put" /\ NumberIsInteger(req[r].cantidad) /\ req[r].cantidad.val < 0
  \/ req[r].kind = "restar" /\ \E row \in Rows(r) : row.cantidad - req[r].cantidad.val < 0
  \/ req[r].kind = "salidas" /\ \E row \in Rows(r) : row.cantidad - req[r].unidades.val < 0

\* C1: in every reachable state, whatever the interleaving of PUT, restar and
\* salidas requests, the committed quantity of every antibiotic is >= 0; and
\* a request that would take a quantity below zero ends without a success
\* response and has changed nothing.
C1_CantidadNuncaNegativa ==
  /\ \A c \in Codigos : antibioticos[c].cantidad >= 0
  /\ \A r \in Slots :
       (pc[r] = "done" /\ BajoCero(r)) =>
          (res[r].status \in {400, 409, 500} /\ Unchanged(r))

\* A decrement has committed and left a quantity at exactly 0 while another
\* request is in progress.
C1_Witness ==
  \E r \in Slots :
    /\ Done(r, "salidas") /\ res[r].status = 200
    /\ \E w \in eff[r].writes : w.after.cantidad = 0
    /\ \E s \in Slots \ {r} : pc[s] \notin {"idle", "done"}

\* C2: a salidas request whose locked read found an associated antibiotic
\* with quantity < unidades changes no quantity (not even of the antibiotics
\* that had enough) and appends no row to the log.
C2_SalidasInsuficienteSinEfecto ==
  \A r \in Slots :
    (Done(r, "salidas") /\ \E row \in Rows(r) : row.cantidad < req[r].unidades.val)
      => (Unchanged(r) /\ eff[r].commits = 0 /\ res[r].status # 200)

\* The spec's scenario: one associated antibiotic has enough, the other not.
C2_Witness ==
  \E r \in Slots :
    /\ Done(r, "salidas") /\ res[r].status = 409
    /\ \E a, b \in Rows(r) :
         a.cantidad >= req[r].unidades.val /\ b.cantidad < req[r].unidades.val

\* C3: a salidas request whose locked read returned at least one associated
\* antibiotic, all with quantity >= unidades, and which the store did not
\* abort, succeeds; it has changed exactly the rows it read, each from the
\* quantity read to that quantity minus unidades, and it has appended exactly
\* one log row (antibiograma_id, unidades).
C3_SalidasDescuentaTodos ==
  \A r \in Slots :
    (/\ Done(r, "salidas") /\ exc[r] = ""
     /\ Rows(r) # {}
     /\ \A row \in Rows(r) : row.cantidad >= req[r].unidades.val)
      => /\ res[r].status = 200
         /\ {w.codigo : w \in eff[r].writes} = Codes(r)
         /\ \A w \in eff[r].writes : \E row \in Rows(r) :
              /\ row.codigo = w.codigo
              /\ w.before.cantidad = row.cantidad
              /\ w.after = [w.before EXCEPT !.cantidad = row.cantidad - req[r].unidades.val]
              /\ antibioticos[w.codigo] = w.after
         /\ Cardinality(eff[r].writes) = Len(items[r])
         /\ eff[r].salidas = <<[antibiograma_id |-> req[r].antibiograma_id.val,
                                unidades |-> req[r].unidades.val]>>
         /\ Len(salidas) > 0 /\ salidas[Len(salidas)] = eff[r].salidas[1]
         /\ eff[r].added = {} /\ eff[r].removed = {}

\* The spec's scenario: two associated antibiotics, two units each.
C3_Witness ==
  \E r \in Slots :
    /\ Done(r, "salidas") /\ res[r].status = 200
    /\ Len(items[r]) = 2 /\ req[r].unidades.val = 2

\* C4: a restar request of a positive integer n on an existing antibiotic
\* whose locked read gave quantity q >= n leaves that row at exactly q - n and
\* changes nothing else: no other antibiotic, no association, no log row.
C4_RestarDescuentaUnaFila ==
  \A r \in Slots :
    (/\ Done(r, "restar") /\ RestarValid(req[r].cantidad)
     /\ req[r].codigo \in Codigos
     /\ Len(items[r]) = 1 /\ items[r][1].cantidad >= req[r].cantidad.val)
      => /\ items[r][1].codigo = req[r].codigo
         /\ LET q == items[r][1].cantidad
                c == req[r].codigo IN
              /\ eff[r].writes =
                   {[codigo |-> c,
                     before |-> [nombre |-> Nombre(c), cantidad |-> q,
                                 stock_minimo |-> items[r][1].stock_minimo],
                     after |-> [nombre |-> Nombre(c), cantidad |-> q - req[r].cantidad.val,
                                stock_minimo |-> items[r][1].stock_minimo]]}
              /\ antibioticos[c].cantidad = q - req[r].cantidad.val
         /\ eff[r].salidas = <<>> /\ eff[r].added = {} /\ eff[r].removed = {}

C4_Witness ==
  \E r \in Slots :
    /\ Done(r, "restar") /\ req[r].cantidad.val = 2
    /\ \E w \in eff[r].writes : w.after.cantidad = w.before.cantidad - 2

\* The restar request in slot r is valid, names an existing antibiotic and
\* its locked read has returned that antibiotic's row.
RestarLeido(r) ==
  /\ Done(r, "restar") /\ RestarValid(req[r].cantidad)
  /\ req[r].codigo \in Codigos /\ Len(items[r]) = 1

\* C5: a restar request of a positive integer n on an existing antibiotic
\* read with quantity q >= n is answered with the success response
\* {ok, item}, where item is the updated record (quantity q - n).
C5_RestarRespondeItem ==
  \A r \in Slots :
    (RestarLeido(r) /\ items[r][1].cantidad >= req[r].cantidad.val)
      => /\ res[r].status = 200
         /\ DOMAIN res[r].body = {"ok", "item"}
         /\ res[r].body.item = antibioticos[req[r].codigo]
         /\ res[r].body.item.cantidad = items[r][1].cantidad - req[r].cantidad.val

\* The decrement is committed and the caller is told it failed.
C5_Witness ==
  \E r \in Slots :
    /\ RestarLeido(r) /\ items[r][1].cantidad >= req[r].cantidad.val
    /\ res[r].status = 500 /\ res[r].body.error = "item is not defined"
    /\ antibioticos[req[r].codigo].cantidad = items[r][1].cantidad - req[r].cantidad.val

\* C6: whenever a restar request ends with a failure response (400, 404, 409
\* or 500) the stored quantity of every antibiotic is what it was before the
\* request: the request has written nothing.
C6_RestarFalloSinEfecto ==
  \A r \in Slots :
    (Done(r, "restar") /\ res[r].status \in {400, 404, 409, 500})
      => (eff[r].writes = {} /\ eff[r].commits = 0)

\* A 500 response of restar whose transaction changed a stored quantity.
C6_Witness ==
  \E r \in Slots :
    /\ Done(r, "restar") /\ res[r].status = 500
    /\ \E w \in eff[r].writes : w.after.cantidad < w.before.cantidad

\* C7: a restar request of a positive integer n on an existing antibiotic
\* whose quantity q is < n is answered 409 with a payload carrying q, the
\* quantity stored for that antibiotic (in the text of its error message),
\* and the stored quantity remains q;
\* while the request is between its check and its rollback it holds the row
\* lock and the quantity it checked is the stored one.
C7_RestarInsuficiente409 ==
  \A r \in Slots :
    /\ (RestarLeido(r) /\ items[r][1].cantidad < req[r].cantidad.val)
         => /\ res[r].status = 409
            /\ DOMAIN res[r].body = {"error"}
            /\ res[r].body.error[2] = items[r][1].cantidad
            /\ res[r].body.error[2] = antibioticos[req[r].codigo].cantidad
            /\ res[r].body.error[4] = req[r].cantidad.val
            /\ Unchanged(r) /\ eff[r].commits = 0
    /\ pc[r] = "restar_rollback"
         => /\ rowLock[req[r].codigo] = r
            /\ items[r][1].cantidad = antibioticos[req[r].codigo].cantidad
            /\ items[r][1].cantidad < req[r].cantidad.val

\* The spec's scenario, scaled: quantity 1, two units asked.
C7_Witness ==
  \E r \in Slots :
    /\ Done(r, "restar") /\ res[r].status = 409
    /\ res[r].body.error[2] = 1 /\ res[r].body.error[4] = 2
    /\ antibioticos[req[r].codigo].cantidad = 1

\* The request in slot r has passed its stock check and has not committed.
PasoElControl(r) ==
  pc[r] \in {"restar_update", "restar_commit",
             "salidas_update", "salidas_insert", "salidas_commit"}

\* C8: overlapping restar and salidas transactions are serialized by the row
\* locks taken before the stock check.  A request that has passed its check
\* holds the lock of every row it checked, the quantity it checked is still
\* the committed one and covers its decrement (so no two requests pass their
\* check against the same pre-decrement quantity); and for every antibiotic
\* the committed quantity equals the initial (or last PUT) quantity minus the
\* sum of the decrements of the committed requests.
C8_SerializadoPorBloqueos ==
  /\ \A c \in Codigos : antibioticos[c].cantidad = esperado[c]
  /\ \A r \in Slots : PasoElControl(r) =>
       \A row \in Rows(r) :
         /\ rowLock[row.codigo] = r
         /\ antibioticos[row.codigo].cantidad = row.cantidad
         /\ row.cantidad >= Decremento(r, row.codigo)
  /\ \A r, s \in Slots :
       (r # s /\ PasoElControl(r) /\ PasoElControl(s)) => Codes(r) \cap Codes(s) = {}

\* A restar request has committed its decrement while a salidas request that
\* reads the same row was waiting for the row lock.
C8_Witness ==
  \E r, s \in Slots :
    /\ Done(s, "restar") /\ eff[s].writes # {}
    /\ pc[r] = "salidas_select"
    /\ \E p \in pending[r] : p[2] = req[s].codigo

\* C9: the 409 payload of salidas itemizes exactly the antibiotics associated
\* with the antibiogram whose stored quantity is < unidades, every one of
\* them once and no antibiotic with enough stock, each with its code, name,
\* stored quantity and the units asked.
C9_InsuficientesExactos ==
  \A r \in Slots :
    (Done(r, "salidas") /\ res[r].status = 409)
      => LET lista == res[r].body.insuficientes
             u == req[r].unidades.val
             id == req[r].antibiograma_id.val
             cortos == {p[2] : p \in {a \in Asignados(id) : antibioticos[a[2]].cantidad < u}} IN
           /\ {lista[i] : i \in 1..Len(lista)} =
                {[codigo |-> c, nombre |-> Nombre(c),
                  cantidad |-> antibioticos[c].cantidad, pedir |-> u] : c \in cortos}
           /\ Len(lista) = Cardinality(cortos)
           /\ Len(lista) > 0

\* A 409 that itemizes one of the two associated antibiotics.
C9_Witness ==
  \E r \in Slots :
    /\ Done(r, "salidas") /\ res[r].status = 409
    /\ Len(res[r].body.insuficientes) = 1 /\ Len(items[r]) = 2

\* The associations that a replace-all request with list codes asks for.
Pedidas(id, codes) ==
  {<<id, StringOf(codes[i])>> : i \in {j \in 1..Len(codes) : ~Skipped(codes[j])}}

\* C10: after a successful replace-all request for antibiogram id with list
\* codes, the associations of id are exactly the distinct non-falsy entries
\* of codes, and the request has changed no association of another
\* antibiogram.
C10_ReemplazoExacto ==
  \A r \in Slots :
    (Done(r, "asignar") /\ res[r].status = 200)
      => LET id == req[r].antibiograma_id.val IN
           /\ {p \in antibiograma_antibiotico : p[1] = id} = Pedidas(id, req[r].codes)
           /\ \A p \in eff[r].added \cup eff[r].removed : p[1] = id

\* The same statement for a replace-all request during which no other
\* transaction committed a change to the associations of the same
\* antibiogram.
C10_ReemplazoExactoSinSolape ==
  \A r \in Slots :
    (Done(r, "asignar") /\ res[r].status = 200 /\ ~eff[r].interferida)
      => LET id == req[r].antibiograma_id.val IN
           /\ {p \in antibiograma_antibiotico : p[1] = id} = Pedidas(id, req[r].codes)
           /\ \A p \in eff[r].added \cup eff[r].removed : p[1] = id

\* A successful replace-all, overlapped by another one of the same
\* antibiogram, after which the antibiogram has an association that is not
\* in the request's list.
C10_Witness ==
  \E r \in Slots :
    /\ Done(r, "asignar") /\ res[r].status = 200 /\ eff[r].interferida
    /\ \E p \in antibiograma_antibiotico :
         p[1] = req[r].antibiograma_id.val
           /\ p \notin Pedidas(req[r].antibiograma_id.val, req[r].codes)

\* C11: replace-all is atomic.  A replace-all request that fails at any step
\* after its DELETE (an insert rejected by the store, an abort by the
\* store) has committed nothing: no association was removed or added by it;
\* and only a replace-all request that answers 200 has committed, once, and
\* (unless another transaction changed the same antibiogram meanwhile) with
\* every link of its list, so no state with the old links deleted and only
\* some of the new links inserted is ever committed.
C11_ReemplazoAtomico ==
  \A r \in Slots :
    Done(r, "asignar") =>
      /\ res[r].status # 200 => (Unchanged(r) /\ eff[r].commits = 0)
      /\ eff[r].commits > 0 =>
           /\ res[r].status = 200 /\ eff[r].commits = 1
           /\ ~eff[r].interferida =>
                Pedidas(req[r].antibiograma_id.val, req[r].codes)
                  \subseteq antibiograma_antibiotico
      /\ ~tx[r].open /\ tx[r].del = {} /\ tx[r].ins = {}

\* The list (CIP, ZZZ) for antibiogram 1: AMX and CIP were deleted and CIP
\* inserted again when the store rejected ZZZ; both old links are in place.
C11_Witness ==
  \E r \in Slots :
    /\ Done(r, "asignar") /\ res[r].status = 500
    /\ exc[r] = "violates foreign key constraint"
    /\ req[r].codes = <<"CIP", "ZZZ">> /\ req[r].antibiograma_id.val = 1
    /\ {<<1, "AMX">>, <<1, "CIP">>} \subseteq antibiograma_antibiotico

\* The request in slot r is one of the three write operations that use a
\* pooled connection.
Escritura(r) == req[r].kind \in {"asignar", "restar", "salidas"}

\* C12: in replace-all, restar and salidas every connection acquired from the
\* pool is released exactly once before the request ends, on every path
\* (validation rejection, not found, insufficient stock, exception,
\* success), and never while the handler is still using it.
C12_ConexionLiberadaUnaVez ==
  \A r \in Slots :
    /\ (pc[r] = "done" /\ Escritura(r)) =>
          /\ client[r].acquired \in {0, 1}
          /\ client[r].released = client[r].acquired
          /\ client[r].acquired = 0 => exc[r] = "connect rejected"
    /\ (pc[r] \notin {"idle", "done"}) =>
          (client[r].acquired = 1 /\ client[r].released = 0)

\* The exception path: a request aborted by the store has released its
\* connection.
C12_Witness ==
  \E r \in Slots :
    /\ pc[r] = "done" /\ Escritura(r) /\ exc[r] = "deadlock detected"
    /\ res[r].status = 500
    /\ client[r] = [acquired |-> 1, released |-> 1]

\* The restar or salidas request in slot r carries an amount, an antibiogram
\* id or a units count that is not a positive integer.
EntradaInvalida(r) ==
  \/ req[r].kind = "restar" /\ ~RestarValid(req[r].cantidad)
  \/ req[r].kind = "salidas" /\ ~(SalidasValidId(req[r].antibiograma_id)
                                   /\ SalidasValidUnidades(req[r].unidades))

\* C13: in restar and salidas the validation of the input comes before any
\* database access: a request with an invalid amount, antibiogram id or
\* units count is answered 400 without the handler having acquired a pooled
\* connection or begun a transaction, so its rejection does not depend on
\* the pool.
C13_ValidacionAntesDeLaBase ==
  \A r \in Slots :
    (pc[r] = "done" /\ EntradaInvalida(r))
      => /\ res[r].status = 400
         /\ client[r].acquired = 0
         /\ eff[r].commits = 0 /\ ~tx[r].open

\* An invalid request answered 400 by a handler that held a pooled
\* connection.
C13_Witness ==
  \E r \in Slots :
    /\ pc[r] = "done" /\ EntradaInvalida(r)
    /\ res[r].status = 400 /\ client[r].acquired = 1

\* The same statement without its claim about the pool: an invalid request
\* for which a connection was obtained is answered 400 and no transaction
\* was begun.
C13_RechazoSinTransaccion ==
  \A r \in Slots :
    (pc[r] = "done" /\ EntradaInvalida(r) /\ client[r].acquired = 1)
      => (res[r].status = 400 /\ Unchanged(r) /\ eff[r].commits = 0 /\ ~tx[r].open)

\* An invalid request that got no 400 because pool.connect() rejected.
C13_SinRechazo ==
  \E r \in Slots :
    /\ pc[r] = "done" /\ EntradaInvalida(r)
    /\ res[r].status # 400 /\ exc[r] = "connect rejected"

\* C14: every request to a write operation receives exactly one response in
\* its own request/response cycle: when its handler has ended exactly one
\* response has been sent, and every store or infrastructure error (a
\* rejected pool.connect(), an abort by the deadlock detector, a rejected
\* statement) has been answered with a server error response.
C14_UnaRespuesta ==
  \A r \in Slots :
    (pc[r] = "done" /\ Escritura(r))
      => /\ res[r].sent = 1
         /\ exc[r] # "" => res[r].status = 500

\* A request whose handler has ended without any response: pool.connect()
\* rejected and nothing caught it.
C14_Witness ==
  \E r \in Slots :
    /\ pc[r] = "done" /\ Escritura(r)
    /\ exc[r] = "connect rejected" /\ res[r].sent = 0 /\ res[r].status = 0

\* The same statement for the requests that obtained a connection.
C14_UnaRespuestaConConexion ==
  \A r \in Slots :
    (pc[r] = "done" /\ Escritura(r) /\ client[r].acquired = 1)
      => /\ res[r].sent = 1
         /\ exc[r] # "" => res[r].status = 500

\* The store grants or aborts every lock wait, and a handler that can take
\* its next step takes it.
FairSpec == Spec /\ WF_vars(Next)

\* Under FairSpec every request being served ends.
C14_TodaPeticionTermina ==
  \A r \in Slots : (pc[r] \notin {"idle", "done"}) ~> (pc[r] = "done")

\* The salidas request in slot r commits in this step.
SalidaConfirmada(r) ==
  /\ req[r].kind = "salidas" /\ pc[r] = "salidas_commit"
  /\ pc'[r] = "done" /\ res'[r].status = 200

\* C15: the outflow log is append-only and grows only through successful
\* salidas requests.  It starts empty; no step modifies or removes a row;
\* a step adds a row exactly when it is the commit of a salidas request, and
\* then it adds one row, after the existing ones, with the antibiogram id
\* and the units of that request.  So the number of rows is the number of
\* committed salidas requests, and restar, PUT and replace-all add none.
C15_LogSoloCrece ==
  /\ salidas = <<>>
  /\ [][/\ Len(salidas') >= Len(salidas)
        /\ SubSeq(salidas', 1, Len(salidas)) = salidas
        /\ \A r \in Slots :
             SalidaConfirmada(r) =>
               salidas' = Append(salidas,
                                 [antibiograma_id |-> req[r].antibiograma_id.val,
                                  unidades |-> req[r].unidades.val])
        /\ (\A r \in Slots : ~SalidaConfirmada(r)) => salidas' = salidas]_vars

\* Two outflows are in the log, in the order of their commits: the second
\* row is the one the request that has just committed appended.
C15_Witness ==
  /\ Len(salidas) = 2
  /\ \E r \in Slots : pc[r] = "done" /\ req[r].kind = "salidas" /\ res[r].status = 200
                        /\ salidas[2] = eff[r].salidas[1]

\* The salidas request in slot r had valid input and its SELECT ran.
SalidasLeida(r) ==
  /\ Done(r, "salidas") /\ client[r].acquired = 1
  /\ SalidasValidId(req[r].antibiograma_id) /\ SalidasValidUnidades(req[r].unidades)

SinAsignados == "Ese antibiograma no tiene antibioticos asignados"

\* C16: a salidas request with valid input for an antibiogram that had no
\* associated antibiotic when its SELECT ran (an antibiogram id that does not
\* exist included) is rolled back and answered with the 400 "no antibiotics
\* assigned" signal; it changes no quantity and creates no log row.
C16_SalidasSinAsignados ==
  \A r \in Slots :
    (SalidasLeida(r) /\ eff[r].vistos = {})
      => /\ res[r].status = 400
         /\ res[r].body = [error |-> SinAsignados]
         /\ Unchanged(r) /\ eff[r].commits = 0
         /\ ~tx[r].open

\* The antibiogram id that does not exist.
C16_Witness ==
  \E r \in Slots :
    /\ SalidasLeida(r) /\ req[r].antibiograma_id.val = 3
    /\ res[r].status = 400 /\ res[r].body = [error |-> SinAsignados]

\* An existing antibiogram left with no association by an earlier
\* replace-all with an empty list.
C16_WitnessVaciado ==
  \E r \in Slots :
    /\ SalidasLeida(r) /\ req[r].antibiograma_id.val = 2
    /\ eff[r].vistos = {} /\ res[r].status = 400

\* C17: in the three write operations the caller's view agrees with the
\* store: a request is answered with a success response if and only if its
\* transaction committed.
C17_ExitoSiYSoloSiConfirmado ==
  \A r \in Slots :
    (pc[r] = "done" /\ Escritura(r))
      => (res[r].status = 200 <=> eff[r].commits = 1)

\* A request whose transaction committed and which is answered with a
\* server error.
C17_Witness ==
  \E r \in Slots :
    /\ pc[r] = "done" /\ Escritura(r)
    /\ eff[r].commits = 1 /\ eff[r].writes # {}
    /\ res[r].status = 500 /\ res[r].sent = 1

\* One direction holds in the three operations: a success response is sent
\* only after the COMMIT; and in replace-all and salidas a committed request
\* is answered with a success response.
C17_ExitoSoloTrasCommit ==
  \A r \in Slots :
    (pc[r] = "done" /\ Escritura(r))
      => /\ res[r].status = 200 => eff[r].commits = 1
         /\ (req[r].kind # "restar" /\ eff[r].commits = 1) => res[r].status = 200

\* The handler in slot r has returned before its BEGIN: its input was
\* rejected by the validation.
AntesDeBegin(r) ==
  \/ EntradaInvalida(r)
  \/ req[r].kind = "asignar" /\ ~AsignarValidId(req[r].antibiograma_id)

\* C18: no connection is returned to the pool with a transaction still open.
\* In the three write operations a released connection has no open
\* transaction and holds no lock; a transaction is open only on a connection
\* the handler still holds; and a handler that returned before BEGIN never
\* had a transaction to end.
C18_SinTransaccionAbiertaAlLiberar ==
  \A r \in Slots :
    /\ client[r].released > 0 =>
         /\ ~tx[r].open
         /\ \A c \in Codigos : rowLock[c] # r
         /\ \A p \in Pares : aaLock[p] # r
    /\ tx[r].open => (client[r].acquired = 1 /\ client[r].released = 0
                       /\ pc[r] \notin {"idle", "done"})
    /\ (pc[r] = "done" /\ AntesDeBegin(r)) => (~tx[r].open /\ eff[r].commits = 0)

\* A connection released after the ROLLBACK of the insufficient-stock path
\* of salidas, which held two row locks.
C18_Witness ==
  \E r \in Slots :
    /\ Done(r, "salidas") /\ res[r].status = 409 /\ Len(items[r]) = 2
    /\ client[r].released = 1 /\ ~tx[r].open

\* The antibiotics of a set of association rows.
CodigosDe(asociaciones) == {p[2] : p \in asociaciones}

\* C19: a salidas request that runs concurrently with a replace-all of the
\* same antibiogram acts on the complete old association set (the one
\* committed when its SELECT started) or on the complete new one (the one
\* committed when it answers): when it succeeds, the antibiotics it
\* decremented are exactly one of the two sets, and it answers "no
\* antibiotics assigned" only if one of the two sets is empty.
C19_SalidasVeConjuntoCompleto ==
  \A r \in Slots :
    SalidasLeida(r) =>
      LET viejo == CodigosDe(eff[r].vistos)
          nuevo == CodigosDe(Asociados(req[r].antibiograma_id.val)) IN
        /\ res[r].status = 200 =>
             /\ {w.codigo : w \in eff[r].writes} \in {viejo, nuevo}
             /\ Codes(r) \in {viejo, nuevo}
        /\ (res[r].status = 400 /\ res[r].body = [error |-> SinAsignados]) =>
             (viejo = {} \/ nuevo = {})

\* A salidas request answered "no antibiotics assigned" for an antibiogram
\* that had associations when its SELECT started and has associations now.
C19_Witness ==
  \E r \in Slots :
    /\ SalidasLeida(r) /\ res[r].status = 400
    /\ res[r].body = [error |-> SinAsignados]
    /\ eff[r].vistos # {}
    /\ Asociados(req[r].antibiograma_id.val) # {}

\* The part of the statement that holds: a successful salidas request has
\* decremented exactly the old set or exactly the new set, never a mixture
\* or a strict subset.
C19_SinMezcla ==
  \A r \in Slots :
    (SalidasLeida(r) /\ res[r].status = 200) =>
      LET viejo == CodigosDe(eff[r].vistos)
          nuevo == CodigosDe(Asociados(req[r].antibiograma_id.val)) IN
        /\ {w.codigo : w \in eff[r].writes} \in {viejo, nuevo}
        /\ Codes(r) \in {viejo, nuevo}

====
